---- MODULE Spec2Model ----
(***************************************************************************)
(* Model of py3-wiiboard.py: the Wiiboard / WiiboardSampling /            *)
(* WiiboardPrint driver, its connect handshake, its receive loop and the  *)
(* epoch controller, together with the main program's context manager.   *)
(*                                                                         *)
(* Packets are byte sequences (Python index i is TLA+ index i + 1).       *)
(* Masses and the battery level are exact fractions <<num, den>> in       *)
(* lowest terms with den > 0; floating-point rounding is not modelled.    *)
(***************************************************************************)
EXTENDS Integers, Sequences, FiniteSets, TLC

(***************************************************************************)
(* Bounds of the model.  N_SAMPLES (line 26, 120000 in the source) and    *)
(* N_LOOP (line 28, 0 in the source) are the module-level configuration;  *)
(* they are scaled so that a window fills within a few packets and both   *)
(* branches of the epoch test are taken.                                  *)
(***************************************************************************)
MaxPackets == 4
N_SAMPLES == 2
N_LOOP == 1

(***************************************************************************)
(* Program constants.                                                      *)
(***************************************************************************)
T_SLEEP == 2
BATTERY_MAX == 200
TOP_RIGHT == 0
BOTTOM_RIGHT == 1
TOP_LEFT == 2
BOTTOM_LEFT == 3
CONTINUOUS_REPORTING == 4
COMMAND_REPORTING == 18
COMMAND_LIGHT == 17
COMMAND_READ_REGISTER == 23
COMMAND_REGISTER == 22
COMMAND_REQUEST_STATUS == 21
INPUT_STATUS == 32
INPUT_READ_DATA == 33
EXTENSION_8BYTES == 50
BUTTON_DOWN_MASK == 8
LED1_MASK == 16
SENTINEL == 10000
OUTPUT_PREFIX == 82

VARIABLES
    pc,                     \* position of the main program
    calibration,            \* self.calibration, 3 rows of 4 values
    calibration_requested,  \* self.calibration_requested
    light_state,            \* self.light_state
    button_down,            \* self.button_down
    battery,                \* self.battery, a fraction
    running,                \* self.running
    samples,                \* self.samples, a deque of mass records
    nsamples,               \* maxlen of self.samples
    nloop,                  \* self.nloop
    length,                 \* local variable of loop(): 1..16, 0 while unbound
    controlsocket,          \* "open" or "closed"
    receivesocket,          \* "open" or "closed"
    csv_file,               \* "open" or "closed"
    err,                    \* exception that left the last step, or "none"
    trace,                  \* effects of the last step, in order
    data,                   \* packet returned by the last recv
    nrecv,                  \* packets received so far
    nsink,                  \* records written to the sink so far
    nmass,                  \* extension packets whose handling completed
    device                  \* the board at the other end of the two channels

vars == <<pc, calibration, calibration_requested, light_state, button_down,
          battery, running, samples, nsamples, nloop, length, controlsocket,
          receivesocket, csv_file, err, trace, data, nrecv, nsink, nmass,
          device>>

----------------------------------------------------------------------------
(* Arithmetic helpers *)

Abs(x) == IF x < 0 THEN -x ELSE x

Min(a, b) == IF a < b THEN a ELSE b

RECURSIVE GCD(_, _)
GCD(a, b) == IF b = 0 THEN a ELSE GCD(b, a % b)

\* n / d as a fraction in lowest terms, d # 0
Frac(n, d) ==
    LET g == GCD(Abs(n), Abs(d))
        s == IF d < 0 THEN -1 ELSE 1
    IN  <<(s * n) \div g, (s * d) \div g>>

\* a + b for an integer a and a fraction b
FracAddInt(a, b) == Frac(a * b[2] + b[1], b[2])

\* a * b for an integer a and a fraction b
FracMulInt(a, b) == Frac(a * b[1], b[2])

Zero == <<0, 1>>

----------------------------------------------------------------------------
(* Byte helpers *)

\* Python d[a:b]
Slice(d, a, b) ==
    IF a >= Min(b, Len(d)) THEN <<>> ELSE SubSeq(d, a + 1, Min(b, Len(d)))

\* int.from_bytes(b, "big")
RECURSIVE FromBytes(_)
FromBytes(b) ==
    IF b = <<>> THEN 0
    ELSE 256 * FromBytes(SubSeq(b, 1, Len(b) - 1)) + b[Len(b)]

\* b2i on a byte string
b2i(b) == FromBytes(b)

\* the two big-endian bytes of a 16-bit value
Be16(v) == <<(v \div 256) % 256, v % 256>>

\* a variant of cal that steps one byte, not two, between the values
cal_stride_one(d) == [j \in 1..4 |-> b2i(Slice(d, j - 1, j + 1))]

\* the lambda cal of loop(): four 16-bit values of an 8-byte slice
cal(d) == [j \in 1..4 |-> b2i(Slice(d, 2 * (j - 1), 2 * (j - 1) + 2))]

----------------------------------------------------------------------------
(* The driver object as a record, and the primitive effects on it *)

Self ==
    [calibration |-> calibration,
     calibration_requested |-> calibration_requested,
     light_state |-> light_state,
     button_down |-> button_down,
     battery |-> battery,
     running |-> running,
     samples |-> samples,
     nloop |-> nloop,
     length |-> length,
     controlsocket |-> controlsocket,
     receivesocket |-> receivesocket,
     csv_file |-> csv_file,
     err |-> "none",
     trace |-> <<>>,
     nsink |-> nsink,
     nmass |-> nmass]

Ok(s) == s.err = "none"

\* an exception is raised; nothing after it in the step runs
Raise(s, e) == IF Ok(s) THEN [s EXCEPT !.err = e] ELSE s

\* an effect of the step is recorded
Emit(s, k, v) ==
    IF Ok(s) THEN [s EXCEPT !.trace = Append(@, [k |-> k, v |-> v])] ELSE s

\* Wiiboard.send: one output report on the control channel
send(s, bytes) ==
    IF s.controlsocket = "open"
    THEN Emit(s, "send", <<OUTPUT_PREFIX>> \o bytes)
    ELSE Raise(s, "TransportError")

reporting(s) ==
    send(s, <<COMMAND_REPORTING, CONTINUOUS_REPORTING, EXTENSION_8BYTES>>)

light(s, on_off) == send(s, <<COMMAND_LIGHT, IF on_off THEN 16 ELSE 0>>)

status(s) == send(s, <<COMMAND_REQUEST_STATUS, 0>>)

\* Wiiboard.connect; line 114 names self.status without calling it
connect(s) ==
    LET s1 == send(s, <<COMMAND_READ_REGISTER, 4, 164, 0, 36, 0, 24>>)
        s2 == IF Ok(s1) THEN [s1 EXCEPT !.calibration_requested = TRUE] ELSE s1
        s3 == send(s2, <<COMMAND_REGISTER, 4, 164, 0, 64, 0>>)
    IN  light(s3, FALSE)

\* Wiiboard.close
close(s) ==
    LET s1 == Emit(s, "close", <<>>)
    IN  IF Ok(s1)
        THEN [s1 EXCEPT !.csv_file = "closed", !.running = FALSE,
                        !.receivesocket = "closed", !.controlsocket = "closed"]
        ELSE s1

\* a variant of on_status that arms reporting only once calibrated
on_status_calibrated(s) ==
    IF s.calibration_requested
    THEN light(Emit(s, "on_status", <<>>), TRUE)
    ELSE light(reporting(Emit(s, "on_status", <<>>)), TRUE)

on_status(s) == light(reporting(Emit(s, "on_status", <<>>)), TRUE)

on_calibrated(s) == light(Emit(s, "on_calibrated", <<>>), TRUE)

on_pressed(s) == Emit(s, "on_pressed", <<>>)

on_released(s) == Emit(s, "on_released", <<>>)

\* a variant of check_button that reports the level, not the edge
check_button_level(s, state) ==
    IF ~Ok(s) THEN s
    ELSE IF state = BUTTON_DOWN_MASK
    THEN on_pressed([s EXCEPT !.button_down = TRUE])
    ELSE IF s.button_down
    THEN on_released([s EXCEPT !.button_down = FALSE])
    ELSE s

\* Wiiboard.check_button
check_button(s, state) ==
    IF ~Ok(s) THEN s
    ELSE IF state = BUTTON_DOWN_MASK
    THEN IF ~s.button_down
         THEN on_pressed([s EXCEPT !.button_down = TRUE])
         ELSE s
    ELSE IF s.button_down
    THEN on_released([s EXCEPT !.button_down = FALSE])
    ELSE s

\* a variant of calc_mass without the below-minimum branch
calc_mass_unclamped(c, raw, pos) ==
    IF raw < c[2][pos + 1]
    THEN IF c[2][pos + 1] - c[1][pos + 1] = 0
         THEN [ok |-> FALSE, v |-> Zero]
         ELSE [ok |-> TRUE,
               v |-> FracMulInt(17, Frac(raw - c[1][pos + 1],
                                         c[2][pos + 1] - c[1][pos + 1]))]
    ELSE IF c[3][pos + 1] - c[2][pos + 1] = 0
    THEN [ok |-> FALSE, v |-> Zero]
    ELSE [ok |-> TRUE,
          v |-> FracAddInt(17, FracMulInt(17,
                    Frac(raw - c[2][pos + 1],
                         c[3][pos + 1] - c[2][pos + 1])))]

\* a variant of calc_mass whose upper branch measures from the 0 kg row
calc_mass_from_zero(c, raw, pos) ==
    IF raw < c[1][pos + 1]
    THEN [ok |-> TRUE, v |-> Zero]
    ELSE IF raw < c[2][pos + 1]
    THEN [ok |-> TRUE,
          v |-> FracMulInt(17, Frac(raw - c[1][pos + 1],
                                    c[2][pos + 1] - c[1][pos + 1]))]
    ELSE IF c[3][pos + 1] - c[2][pos + 1] = 0
    THEN [ok |-> FALSE, v |-> Zero]
    ELSE [ok |-> TRUE,
          v |-> FracAddInt(17, FracMulInt(17,
                    Frac(raw - c[1][pos + 1],
                         c[3][pos + 1] - c[2][pos + 1])))]

\* Wiiboard.calc_mass: ok is FALSE when the division is by zero
calc_mass(c, raw, pos) ==
    IF raw < c[1][pos + 1]
    THEN [ok |-> TRUE, v |-> Zero]
    ELSE IF raw < c[2][pos + 1]
    THEN [ok |-> TRUE,
          v |-> FracMulInt(17, Frac(raw - c[1][pos + 1],
                                    c[2][pos + 1] - c[1][pos + 1]))]
    ELSE IF c[3][pos + 1] - c[2][pos + 1] = 0
    THEN [ok |-> FALSE, v |-> Zero]
    ELSE [ok |-> TRUE,
          v |-> FracAddInt(17, FracMulInt(17,
                    Frac(raw - c[2][pos + 1],
                         c[3][pos + 1] - c[2][pos + 1])))]

\* a variant of the row with the two middle columns exchanged
SinkRowSwapped(m) ==
    <<m.top_right, m.top_left, m.bottom_right, m.bottom_left>>

\* the row get_mass hands to csv_writer.writerow
SinkRow(m) == <<m.top_right, m.bottom_right, m.top_left, m.bottom_left>>

\* a row of fractions as a flat sequence of integers
Flat(row) ==
    <<row[1][1], row[1][2], row[2][1], row[2][2],
      row[3][1], row[3][2], row[4][1], row[4][2]>>

\* Wiiboard.get_mass: the state after it and the dictionary it returns
get_mass(s, d) ==
    LET tr == calc_mass(s.calibration, b2i(Slice(d, 0, 2)), TOP_RIGHT)
        br == calc_mass(s.calibration, b2i(Slice(d, 2, 4)), BOTTOM_RIGHT)
        tl == calc_mass(s.calibration, b2i(Slice(d, 4, 6)), TOP_LEFT)
        bl == calc_mass(s.calibration, b2i(Slice(d, 6, 8)), BOTTOM_LEFT)
        m  == [top_right |-> tr.v, bottom_right |-> br.v,
               top_left |-> tl.v, bottom_left |-> bl.v]
    IN  IF ~Ok(s) THEN [s |-> s, mass |-> m]
        ELSE IF ~(tr.ok /\ br.ok /\ tl.ok /\ bl.ok)
        THEN [s |-> Raise(s, "ZeroDivisionError"), mass |-> m]
        ELSE IF s.csv_file # "open"
        THEN [s |-> Raise(s, "ValueError"), mass |-> m]
        ELSE [s |-> [Emit(s, "writerow", Flat(SinkRow(m)))
                        EXCEPT !.nsink = @ + 1],
              mass |-> m]

\* collections.deque.append with maxlen n
DequeAppend(q, x, n) ==
    IF n = 0 THEN q
    ELSE IF Len(q) = n THEN Append(Tail(q), x)
    ELSE Append(q, x)

\* a variant of the epoch test that stops one epoch early
EpochOverAtMax(n) == n >= N_LOOP

\* the epoch test of on_sample, line 333
EpochOver(n) == n > N_LOOP

\* a variant of on_sample that turns the indicator off before the epoch test
on_sample_light_first(s) ==
    IF ~Ok(s) THEN s
    ELSE IF Len(s.samples) = N_SAMPLES
    THEN LET s1 == Emit([s EXCEPT !.samples = <<>>], "clear", <<>>)
             s2 == status(s1)
             s3 == IF Ok(s2)
                   THEN Emit([s2 EXCEPT !.nloop = @ + 1], "nloop", <<>>)
                   ELSE s2
             s4 == light(s3, FALSE)
         IN  IF ~Ok(s4) THEN s4
             ELSE IF EpochOver(s4.nloop)
             THEN close(s4)
             ELSE Emit(s4, "sleep", <<T_SLEEP>>)
    ELSE s

\* WiiboardPrint.on_sample
on_sample(s) ==
    IF ~Ok(s) THEN s
    ELSE IF Len(s.samples) = N_SAMPLES
    THEN LET s1 == Emit([s EXCEPT !.samples = <<>>], "clear", <<>>)
             s2 == status(s1)
             s3 == IF Ok(s2)
                   THEN Emit([s2 EXCEPT !.nloop = @ + 1], "nloop", <<>>)
                   ELSE s2
         IN  IF ~Ok(s3) THEN s3
             ELSE IF EpochOver(s3.nloop)
             THEN close(s3)
             ELSE Emit(light(s3, FALSE), "sleep", <<T_SLEEP>>)
    ELSE s

\* WiiboardSampling.on_mass
on_mass(s, mass, n) ==
    IF ~Ok(s) THEN s
    ELSE on_sample([s EXCEPT !.samples = DequeAppend(@, mass, n),
                             !.nmass = @ + 1])

----------------------------------------------------------------------------
(* One iteration of Wiiboard.loop on the packet d returned by recv *)

SentinelRow == [j \in 1..4 |-> SENTINEL]

\* the branch for INPUT_STATUS
HandleStatus(s, d) ==
    LET s1 == [s EXCEPT !.battery = Frac(b2i(Slice(d, 7, 9)), BATTERY_MAX)]
    IN  IF Len(d) < 5
        THEN Raise(s1, "IndexError")
        ELSE on_status([s1 EXCEPT
                 !.light_state = ((d[5] \div LED1_MASK) % 2 = 1)])

\* the statements under "if self.calibration_requested": length and data
ReadLength(s, d) == IF s.calibration_requested THEN d[5] \div 16 + 1 ELSE s.length

ReadData(s, d) ==
    IF s.calibration_requested
    THEN Slice(d, 7, 7 + ReadLength(s, d))
    ELSE d

\* a variant of the first fragment with the two halves exchanged
FirstFragmentSwapped(s, dd) ==
    [s EXCEPT !.calibration = <<cal(Slice(dd, 8, 16)), cal(Slice(dd, 0, 8)),
                                SentinelRow>>]

\* the first fragment: rows 0 and 1, row 2 back to the sentinel
FirstFragment(s, dd) ==
    [s EXCEPT !.calibration = <<cal(Slice(dd, 0, 8)), cal(Slice(dd, 8, 16)),
                                SentinelRow>>]

\* a variant of the second fragment that leaves the flag set
SecondFragmentKeepsFlag(s, dd) ==
    on_calibrated([s EXCEPT !.calibration[3] = cal(Slice(dd, 0, 8))])

\* the second fragment: row 2, the flag, the callback
SecondFragment(s, dd) ==
    on_calibrated([s EXCEPT !.calibration[3] = cal(Slice(dd, 0, 8)),
                            !.calibration_requested = FALSE])

\* the branch for INPUT_READ_DATA; the test of length is outside the
\* test of calibration_requested, so it also runs on the value an earlier
\* iteration left in length
HandleReadData(s, d) ==
    IF s.calibration_requested /\ Len(d) < 5
    THEN Raise(s, "IndexError")
    ELSE LET len == ReadLength(s, d)
             dd  == ReadData(s, d)
             s1  == [s EXCEPT !.length = len]
         IN  IF len = 0 THEN Raise(s, "UnboundLocalError")
             ELSE IF len = 16 THEN FirstFragment(s1, dd)
             ELSE IF len < 16 THEN SecondFragment(s1, dd)
             ELSE s1

\* the branch for EXTENSION_8BYTES
HandleExtension(s, d, n) ==
    LET s1 == check_button(s, b2i(Slice(d, 2, 4)))
        g  == get_mass(s1, Slice(d, 4, 12))
    IN  on_mass(g.s, g.mass, n)

\* a variant of the dispatch that takes every other tag as extension data
LoopBodyDefaultExtension(s, d, n) ==
    IF Len(d) < 2 THEN s
    ELSE IF d[2] = INPUT_STATUS THEN HandleStatus(s, d)
    ELSE IF d[2] = INPUT_READ_DATA THEN HandleReadData(s, d)
    ELSE HandleExtension(s, d, n)

LoopBody(s, d, n) ==
    IF Len(d) < 2 THEN s
    ELSE IF d[2] = INPUT_STATUS THEN HandleStatus(s, d)
    ELSE IF d[2] = INPUT_READ_DATA THEN HandleReadData(s, d)
    ELSE IF d[2] = EXTENSION_8BYTES THEN HandleExtension(s, d, n)
    ELSE s

----------------------------------------------------------------------------
(* The packets the receive channel may deliver *)

Truncate(d, n) == SubSeq(d, 1, Min(n, Len(d)))

Row(a, b, c, e) == <<a, b, c, e>>

RowBytes(r) == Be16(r[1]) \o Be16(r[2]) \o Be16(r[3]) \o Be16(r[4])

\* a1 20 BB BB LF 00 00 VV VV
StatusPacket(lf, batt) == <<161, INPUT_STATUS, 0, 0, lf, 0, 0>> \o Be16(batt)

\* a1 21 BB BB SE AA AA DD..., SE = (size - 1) * 16 + error
ReadDataPacket(size, payload) ==
    <<161, INPUT_READ_DATA, 0, 0, (size - 1) * 16, 0, 36>> \o payload

\* a1 32 BB BB then four 16-bit raw values
ExtensionPacket(mask, raw) ==
    <<161, EXTENSION_8BYTES>> \o Be16(mask) \o RowBytes(raw)

\* a full report with the indicator on and one with it off, with a battery
\* field inside and one outside the nominal range; and a short report
StatusPackets ==
    {StatusPacket(16, 100), StatusPacket(0, 65535)}
    \cup {Truncate(StatusPacket(16, 100), 4)}

FirstRows ==
    {<<Row(100, 100, 100, 100), Row(200, 200, 200, 200)>>,
     <<Row(100, 110, 120, 130), Row(200, 210, 220, 230)>>,
     <<Row(100, 100, 100, 100), Row(300, 300, 300, 300)>>}

SecondRows ==
    {Row(300, 300, 300, 300), Row(300, 310, 320, 330),
     Row(250, 250, 250, 250)}

ReadDataPackets ==
    {ReadDataPacket(16, RowBytes(r[1]) \o RowBytes(r[2])) : r \in FirstRows}
    \cup {ReadDataPacket(8, RowBytes(r)) : r \in SecondRows}
    \cup {Truncate(ReadDataPacket(8, <<>>), 4)}

RawRows ==
    {Row(150, 150, 150, 150), Row(150, 120, 250, 400),
     Row(9999, 9999, 9999, 9999), Row(65535, 0, 0, 0),
     Row(0, 0, 0, 10000)}

\* the raw rows that also arrive with the button held
PressedRows == {Row(150, 150, 150, 150), Row(150, 120, 250, 400)}

ExtensionPackets ==
    {ExtensionPacket(0, r) : r \in RawRows}
    \cup {ExtensionPacket(BUTTON_DOWN_MASK, r) : r \in PressedRows}
    \cup {Truncate(ExtensionPacket(BUTTON_DOWN_MASK, Row(0, 0, 0, 0)), 4)}

DiscardedPackets == {<<>>, <<161>>, <<161, 48, 0, 0>>}

Packets ==
    StatusPackets \cup ReadDataPackets \cup ExtensionPackets
    \cup DiscardedPackets

\* the window capacities a driver is constructed with
WindowSizes == {N_SAMPLES - 1, N_SAMPLES, N_SAMPLES + 1}

----------------------------------------------------------------------------
(* The state machine *)

\* Wiiboard.__init__, WiiboardSampling.__init__, WiiboardPrint.__init__
(* The board as the driver's protocol expects it: it answers the register  *)
(* read with the two calibration fragments in order, answers a status      *)
(* request with a status report, and streams extension reports while       *)
(* continuous reporting has been armed since its last status report.       *)
(* ok is false once a packet arrived that such a board would not send.     *)

DeviceIdle == [ok |-> TRUE, pending |-> <<>>, armed |-> FALSE]

DeviceOff == [ok |-> FALSE, pending |-> <<>>, armed |-> FALSE]

\* the board after one output report written by send
DeviceHearsOne(dev, bytes) ==
    IF ~dev.ok THEN dev
    ELSE IF bytes[2] = COMMAND_READ_REGISTER
    THEN [dev EXCEPT !.pending = @ \o <<"first", "second">>]
    ELSE IF bytes[2] = COMMAND_REQUEST_STATUS
    THEN [dev EXCEPT !.pending = Append(@, "status")]
    ELSE IF bytes[2] = COMMAND_REPORTING /\ bytes[3] = CONTINUOUS_REPORTING
    THEN [dev EXCEPT !.armed = TRUE]
    ELSE dev

\* the board after the output reports among the effects t, in order
RECURSIVE DeviceHears(_, _)
DeviceHears(dev, t) ==
    IF t = <<>> THEN dev
    ELSE DeviceHears(IF Head(t).k = "send"
                     THEN DeviceHearsOne(dev, Head(t).v)
                     ELSE dev,
                     Tail(t))

\* the reply the board owes first, "" when it owes none
DeviceOwes(dev) == IF dev.pending = <<>> THEN "" ELSE Head(dev.pending)

\* the board after recv returned d: d is the reply it owes, or an extension
\* report of its armed stream, or the packet is not one this board sends
DeviceSends(dev, d) ==
    IF ~dev.ok THEN dev
    ELSE IF Len(d) < 2 THEN DeviceOff
    ELSE IF /\ d[2] = INPUT_READ_DATA /\ Len(d) >= 7 + 8
            /\ DeviceOwes(dev) = "first" /\ d[5] \div 16 + 1 = 16
    THEN [dev EXCEPT !.pending = Tail(@)]
    ELSE IF /\ d[2] = INPUT_READ_DATA /\ Len(d) >= 7 + 8
            /\ DeviceOwes(dev) = "second" /\ d[5] \div 16 + 1 = 8
    THEN [dev EXCEPT !.pending = Tail(@)]
    ELSE IF d[2] = INPUT_STATUS /\ Len(d) >= 9 /\ DeviceOwes(dev) = "status"
    THEN [dev EXCEPT !.pending = Tail(@), !.armed = FALSE]
    ELSE IF d[2] = EXTENSION_8BYTES /\ Len(d) >= 12 /\ dev.armed
    THEN dev
    ELSE DeviceOff

Init ==
    /\ pc = "connect"
    /\ calibration = <<SentinelRow, SentinelRow, SentinelRow>>
    /\ calibration_requested = FALSE
    /\ light_state = FALSE
    /\ button_down = FALSE
    /\ battery = Zero
    /\ running = TRUE
    /\ samples = <<>>
    /\ nsamples \in WindowSizes
    /\ nloop = 0
    /\ length = 0
    /\ controlsocket = "open"
    /\ receivesocket = "open"
    /\ csv_file = "open"
    /\ err = "none"
    /\ trace = <<>>
    /\ data = <<>>
    /\ nrecv = 0
    /\ nsink = 0
    /\ nmass = 0
    /\ device = DeviceIdle

\* the variables take the fields of the state a step ends in
Commit(s) ==
    /\ calibration' = s.calibration
    /\ calibration_requested' = s.calibration_requested
    /\ light_state' = s.light_state
    /\ button_down' = s.button_down
    /\ battery' = s.battery
    /\ running' = s.running
    /\ samples' = s.samples
    /\ nloop' = s.nloop
    /\ length' = s.length
    /\ controlsocket' = s.controlsocket
    /\ receivesocket' = s.receivesocket
    /\ csv_file' = s.csv_file
    /\ err' = s.err
    /\ trace' = s.trace
    /\ nsink' = s.nsink
    /\ nmass' = s.nmass

\* the constructor's call of connect(address)
Connect ==
    /\ pc = "connect"
    /\ Commit(connect(Self))
    /\ pc' = "loop"
    /\ device' = DeviceHears(device, trace')
    /\ UNCHANGED <<nsamples, data, nrecv>>

\* the transport has a packet for recv: at most MaxPackets packets reach a
\* running session, and a stopped session is still offered the next one, so
\* that only the while condition keeps it from receiving
PacketOffered == nrecv < MaxPackets \/ ~running

\* a variant of the while condition that does not test running
LoopConditionIgnoresRunning(s) == s.receivesocket \in {"open", "closed"}

\* the while condition of Wiiboard.loop: the running flag; the socket
\* object is true whether open or closed
LoopCondition(s) == s.running /\ s.receivesocket \in {"open", "closed"}

\* one iteration of the while loop of Wiiboard.loop on packet d
Iterate(d) ==
    /\ pc = "loop"
    /\ LoopCondition(Self)
    /\ PacketOffered
    /\ LET s == LoopBody(Self, d, nsamples)
       IN  /\ Commit(s)
           /\ pc' = IF Ok(s) THEN "loop" ELSE "raised"
           /\ device' = DeviceHears(DeviceSends(device, d), s.trace)
    /\ data' = d
    /\ nrecv' = nrecv + 1
    /\ UNCHANGED nsamples

RecvStatus == \E d \in StatusPackets : Iterate(d)

RecvReadData == \E d \in ReadDataPackets : Iterate(d)

RecvExtension == \E d \in ExtensionPackets : Iterate(d)

RecvDiscarded == \E d \in DiscardedPackets : Iterate(d)

\* recv raises: the transport failed
RecvFails ==
    /\ pc = "loop"
    /\ LoopCondition(Self)
    /\ PacketOffered
    /\ pc' = "raised"
    /\ err' = "TransportError"
    /\ trace' = <<>>
    /\ data' = <<>>
    /\ UNCHANGED <<calibration, calibration_requested, light_state,
                   button_down, battery, running, samples, nsamples, nloop,
                   length, controlsocket, receivesocket, csv_file,
                   nrecv, nsink, nmass, device>>

\* the while condition is false: loop() returns
LoopReturn ==
    /\ pc = "loop"
    /\ ~LoopCondition(Self)
    /\ pc' = "returned"
    /\ trace' = <<>>
    /\ UNCHANGED <<calibration, calibration_requested, light_state,
                   button_down, battery, running, samples, nsamples, nloop,
                   length, controlsocket, receivesocket, csv_file, err, data,
                   nrecv, nsink, nmass, device>>

\* Wiiboard.__exit__ of the with statement: close(), the exception if any
\* is raised again
Exit ==
    /\ pc \in {"returned", "raised"}
    /\ LET s == close(Self)
       IN  Commit([s EXCEPT !.err = err])
    /\ pc' = "exited"
    /\ UNCHANGED <<nsamples, data, nrecv, device>>

\* Wiiboard.__del__: close() once more
Finalise ==
    /\ pc = "exited"
    /\ LET s == close(Self)
       IN  Commit([s EXCEPT !.err = err])
    /\ pc' = "finalised"
    /\ UNCHANGED <<nsamples, data, nrecv, device>>

Next ==
    \/ Connect
    \/ RecvStatus
    \/ RecvReadData
    \/ RecvExtension
    \/ RecvDiscarded
    \/ RecvFails
    \/ LoopReturn
    \/ Exit
    \/ Finalise

Spec == Init /\ [][Next]_vars

----------------------------------------------------------------------------
(* Vocabulary of the properties *)

\* the positions in the trace of the last step that hold an effect of kind k
Of(k) == {i \in DOMAIN trace : trace[i].k = k}

\* the positions of the commands with opcode op written by the last step
Sent(op) == {i \in Of("send") : trace[i].v[2] = op}

\* the last step was connect
Connected == pc = "loop" /\ nrecv = 0

\* the last step received a packet with this tag and began to handle it
Received(tag) ==
    /\ pc \in {"loop", "raised"}
    /\ nrecv > 0
    /\ Len(data) >= 2
    /\ data[2] = tag

\* the last step handled a packet with this tag and the loop goes on to the
\* next test of its condition
Handled(tag) == Received(tag) /\ pc = "loop"

\* this step receives a packet with this tag
Receives(tag) ==
    /\ pc = "loop"
    /\ nrecv' = nrecv + 1
    /\ Len(data') >= 2
    /\ data'[2] = tag

Uncalibrated == calibration = <<SentinelRow, SentinelRow, SentinelRow>>

ReportingCommand ==
    <<OUTPUT_PREFIX, COMMAND_REPORTING, CONTINUOUS_REPORTING, EXTENSION_8BYTES>>

\* the masses of the packet in data under the table, in the order of the sink
ExpectedRow ==
    LET d == Slice(data, 4, 12)
    IN  <<calc_mass(calibration, b2i(Slice(d, 0, 2)), TOP_RIGHT).v,
          calc_mass(calibration, b2i(Slice(d, 2, 4)), BOTTOM_RIGHT).v,
          calc_mass(calibration, b2i(Slice(d, 4, 6)), TOP_LEFT).v,
          calc_mass(calibration, b2i(Slice(d, 6, 8)), BOTTOM_LEFT).v>>

\* a mass record in the order top-right, bottom-right, top-left, bottom-left
Corners(m) == <<m.top_right, m.bottom_right, m.top_left, m.bottom_left>>

----------------------------------------------------------------------------
(* C1: connect writes, in this order, the register read of the calibration *)
(* region (after which calibration_requested is true), the register write  *)
(* arming the extension, and a status request (opcode 0x15) after the      *)
(* register write.                                                         *)
C1_ConnectRequestsStatus ==
    Connected =>
        /\ calibration_requested
        /\ \E i, j, k \in DOMAIN trace :
              /\ i < j /\ j < k
              /\ i \in Sent(COMMAND_READ_REGISTER)
              /\ j \in Sent(COMMAND_REGISTER)
              /\ k \in Sent(COMMAND_REQUEST_STATUS)

(* C2: every status-tagged packet the loop handles, in any calibration     *)
(* state and at any point of the session, invokes the status callback once *)
(* and writes exactly one continuous-reporting command (0x12, mode 0x04,   *)
(* extension 0x32) before the next packet is received.                     *)
C2_StatusRearmsReporting ==
    Handled(INPUT_STATUS) =>
        /\ Cardinality(Of("on_status")) = 1
        /\ Cardinality(Sent(COMMAND_REPORTING)) = 1
        /\ \A i \in Sent(COMMAND_REPORTING) :
              /\ trace[i].v = ReportingCommand
              /\ \E c \in Of("on_status") : c < i

C2_Witness ==
    /\ Handled(INPUT_STATUS)
    /\ ~calibration_requested
    /\ nloop >= 1
    /\ Cardinality(Sent(COMMAND_REPORTING)) = 1

(* C3: the calibration-complete callback is invoked, and                   *)
(* calibration_requested cleared, only after a 16-byte first fragment has  *)
(* been processed; a short fragment that arrives while the driver still    *)
(* awaits the first one does not complete calibration.                     *)
C3_CalibrationInOrder ==
    [][(calibration_requested /\ Receives(INPUT_READ_DATA)
          /\ (Of("on_calibrated")' # {} \/ ~calibration_requested'))
       => length = 16]_vars

(* C4: a calibration-data packet received while calibration_requested is   *)
(* false is not processed: the table and the flag stay as they were and    *)
(* the calibration-complete callback is not invoked.                       *)
C4_UnrequestedFragmentIgnored ==
    [][(~calibration_requested /\ Receives(INPUT_READ_DATA))
       => /\ calibration' = calibration
          /\ calibration_requested' = calibration_requested
          /\ Of("on_calibrated")' = {}]_vars

(* C5: in every reachable state the table has exactly 3 rows of exactly 4  *)
(* values; once a short fragment has been processed calibration_requested  *)
(* is false, and it stays false for every later packet.                    *)
C5_TableShapeAndFlag ==
    /\ [](/\ DOMAIN calibration = 1..3
          /\ \A r \in DOMAIN calibration : DOMAIN calibration[r] = 1..4)
    /\ []((Handled(INPUT_READ_DATA) /\ length < 16)
             => ~calibration_requested)
    /\ [][(pc # "connect" /\ ~calibration_requested)
             => ~calibration_requested']_vars

C5_Witness ==
    /\ nrecv >= 3
    /\ pc = "loop"
    /\ ~calibration_requested
    /\ calibration[1] # SentinelRow
    /\ calibration[3] # SentinelRow

(* C6: the epoch counter starts at 0 and grows by exactly 1 at each        *)
(* window-full event and never otherwise; the driver is not terminated     *)
(* while the counter is <= N_LOOP and terminates in the step in which the  *)
(* counter first exceeds N_LOOP, that is after N_LOOP + 1 epochs.  A       *)
(* session that an exception aborts is closed by the context manager and   *)
(* is not counted as terminated by the controller.                         *)
C6_TerminatesAfterMaxEpochsPlusOne ==
    /\ [](pc = "connect" => nloop = 0)
    /\ []((pc = "loop" /\ nloop <= N_LOOP)
             => (running /\ controlsocket = "open" /\ receivesocket = "open"))
    /\ []((~running /\ err = "none") => nloop = N_LOOP + 1)
    /\ [][/\ nloop' # nloop
             => /\ nloop' = nloop + 1
                /\ Receives(EXTENSION_8BYTES)
                /\ Len(samples) + 1 = N_SAMPLES
                /\ samples' = <<>>
          /\ (Receives(EXTENSION_8BYTES) /\ pc' = "loop"
                /\ Len(samples) + 1 = N_SAMPLES /\ nsamples >= N_SAMPLES)
             => nloop' = nloop + 1
          /\ (nloop <= N_LOOP /\ nloop' > N_LOOP)
             => (~running' /\ controlsocket' = "closed"
                   /\ receivesocket' = "closed")]_vars

C6_Witness ==
    /\ pc = "returned"
    /\ err = "none"
    /\ ~running
    /\ nloop = N_LOOP + 1
    /\ nmass = N_SAMPLES * (N_LOOP + 1)

(* C7: for a driver constructed with window capacity nsamples the window   *)
(* never holds more than nsamples samples, and a push that fills it is     *)
(* followed by the clear within the handling of the same packet, so the    *)
(* window is never left full and no push evicts the oldest sample.         *)
C7_WindowClearedAtCapacity ==
    /\ Len(samples) <= nsamples
    /\ Len(samples) # nsamples

(* C8: a pressed event fires exactly when the mask equals the button-down  *)
(* pattern and the button was not pressed, a released event exactly when   *)
(* the mask differs and the button was pressed, and none when the level    *)
(* repeats; so from not-pressed the events alternate pressed, released.    *)
C8_ButtonEdges ==
    /\ [](Cardinality(Of("on_pressed")) + Cardinality(Of("on_released")) <= 1)
    /\ [][/\ Receives(EXTENSION_8BYTES)
             => LET mask == b2i(Slice(data', 2, 4))
                IN  /\ (Of("on_pressed")' # {})
                          <=> (mask = BUTTON_DOWN_MASK /\ ~button_down)
                    /\ (Of("on_released")' # {})
                          <=> (mask # BUTTON_DOWN_MASK /\ button_down)
                    /\ button_down' = (mask = BUTTON_DOWN_MASK)
          /\ ~Receives(EXTENSION_8BYTES)
             => /\ button_down' = button_down
                /\ Of("on_pressed")' = {}
                /\ Of("on_released")' = {}]_vars

C8_Witness ==
    /\ Received(EXTENSION_8BYTES)
    /\ nrecv = 4
    /\ Of("on_released") # {}
    /\ ~button_down

(* C9: every extension packet handled emits exactly one record to the sink *)
(* and pushes exactly one sample to the window, both with the same four    *)
(* masses, the record in the order top-right, bottom-right, top-left,      *)
(* bottom-left; the number of records equals the number of samples pushed. *)
C9_OneRecordPerSample ==
    /\ [](nsink = nmass)
    /\ [](Handled(EXTENSION_8BYTES)
             => /\ Cardinality(Of("writerow")) = 1
                /\ \A i \in Of("writerow") : trace[i].v = Flat(ExpectedRow)
                /\ samples # <<>>
                      => Corners(samples[Len(samples)]) = ExpectedRow)
    /\ [][(Receives(EXTENSION_8BYTES) /\ pc' = "loop")
             => (nsink' = nsink + 1 /\ nmass' = nmass + 1)]_vars
    /\ [][~Receives(EXTENSION_8BYTES)
             => (nsink' = nsink /\ nmass' = nmass /\ Of("writerow")' = {})]_vars

C9_Witness ==
    /\ Handled(EXTENSION_8BYTES)
    /\ samples # <<>>
    /\ \E i \in Of("writerow") : trace[i].v = <<17, 2, 17, 5, 51, 2, 51, 1>>

(* C10: while the table holds its sentinel values every extension packet,  *)
(* whatever its 16-bit raw values, takes the below-minimum branch and      *)
(* yields mass 0.0 for all four corners.                                   *)
C10_UncalibratedMassIsZero ==
    (Received(EXTENSION_8BYTES) /\ Uncalibrated)
        => /\ err = "none"
           /\ \E i \in Of("writerow") : trace[i].v = Flat(<<Zero, Zero, Zero, Zero>>)

----------------------------------------------------------------------------
(* Vocabulary of the properties of calc_mass *)

Positions == {TOP_RIGHT, BOTTOM_RIGHT, TOP_LEFT, BOTTOM_LEFT}

\* the three reference values of a corner
Column(pos) ==
    <<calibration[1][pos + 1], calibration[2][pos + 1],
      calibration[3][pos + 1]>>

\* raw readings around the reference values of a corner, and the extremes
RawProbe(pos) ==
    LET c == Column(pos)
    IN  {0, 65535, c[1] - 1, c[1], c[1] + 1, c[2] - 1, c[2], c[2] + 1,
         c[3], c[3] + 100} \cap (0..65535)

\* the fraction m is the value of the piecewise formula of section 4.3,
\* each piece taken as one quotient
IsReferenceMass(m, raw, c) ==
    IF raw < c[1] THEN m = <<0, 1>>
    ELSE IF raw < c[2]
    THEN m = Frac(17 * raw - 17 * c[1], c[2] - c[1])
    ELSE m = Frac(17 * raw + 17 * c[3] - 34 * c[2], c[3] - c[2])

\* the raw values of the four corners of the extension packet in data
RawOf(pos) == b2i(Slice(data, 4 + 2 * pos, 6 + 2 * pos))

(* C11: every mass calc_mass returns is >= 0, for every raw 16-bit reading *)
(* and every table the two fragments can assemble, increasing or not.      *)
C11_MassNonNegative ==
    (calibration[1] # SentinelRow /\ calibration[2] # SentinelRow) =>
        \A pos \in Positions : \A raw \in RawProbe(pos) :
            LET m == calc_mass(calibration, raw, pos)
            IN  m.ok => m.v[1] >= 0

(* C11 as amended: for every raw reading and every corner whose 17 kg      *)
(* reference is below its 34 kg reference, calc_mass returns a value >= 0. *)
C11_MassNonNegativeWhenUpperRowsIncrease ==
    \A pos \in Positions : \A raw \in RawProbe(pos) :
        Column(pos)[2] < Column(pos)[3] =>
            LET m == calc_mass(calibration, raw, pos)
            IN  m.ok /\ m.v[1] >= 0 /\ m.v[2] > 0

C11_Witness ==
    /\ Handled(EXTENSION_8BYTES)
    /\ \A pos \in Positions : Column(pos)[2] < Column(pos)[3]
    /\ calibration[3] # SentinelRow
    /\ RawOf(TOP_RIGHT) < Column(TOP_RIGHT)[2]
    /\ RawOf(BOTTOM_LEFT) > Column(BOTTOM_LEFT)[3]
    /\ Of("writerow") # {}

(* C12: for every raw value and every calibration cal[0] < cal[1] < cal[2] *)
(* calc_mass is 0 below cal[0], 17*(raw-cal[0])/(cal[1]-cal[0]) up to      *)
(* cal[1] and 17 + 17*(raw-cal[1])/(cal[2]-cal[1]) from there; at          *)
(* raw = cal[1] both formulas give 17.                                     *)
C12_PiecewiseAndContinuous ==
    \A pos \in Positions :
        LET c == Column(pos)
        IN  (c[1] < c[2] /\ c[2] < c[3]) =>
              /\ \A raw \in RawProbe(pos) :
                    LET m == calc_mass(calibration, raw, pos)
                    IN  m.ok /\ IsReferenceMass(m.v, raw, c)
              /\ calc_mass(calibration, c[2], pos).v = <<17, 1>>
              /\ FracMulInt(17, Frac(c[2] - c[1], c[2] - c[1])) = <<17, 1>>
              /\ calc_mass(calibration, c[1], pos).v = Zero

C12_Witness ==
    /\ calibration[3] # SentinelRow
    /\ \A pos \in Positions :
          Column(pos)[1] < Column(pos)[2] /\ Column(pos)[2] < Column(pos)[3]
    /\ Column(TOP_RIGHT) # Column(BOTTOM_LEFT)
    /\ Handled(EXTENSION_8BYTES)
    /\ RawOf(TOP_LEFT) > Column(TOP_LEFT)[2]

----------------------------------------------------------------------------
\* the mass of a corner in the row the last step wrote to the sink
SinkMass(i, pos) == <<trace[i].v[2 * pos + 1], trace[i].v[2 * pos + 2]>>

Uniform(v) == Row(v, v, v, v)

(* C13: after the two fragments are processed in order the table holds the *)
(* rows they carry, and an extension packet yields a sample whose corner c *)
(* is mass(r_c, (cal0[c], cal1[c], cal2[c])), each corner with its own     *)
(* column; rows 100, 200, 300 and raw 150 on all corners yield 8.5 on all  *)
(* four corners.                                                           *)
C13_EndToEnd ==
    /\ [][/\ \A r \in FirstRows :
                (calibration_requested /\ pc = "loop"
                   /\ nrecv' = nrecv + 1
                   /\ data' = ReadDataPacket(16, RowBytes(r[1]) \o RowBytes(r[2])))
                => calibration' = <<r[1], r[2], SentinelRow>>
          /\ \A r \in SecondRows :
                (calibration_requested /\ pc = "loop"
                   /\ nrecv' = nrecv + 1
                   /\ data' = ReadDataPacket(8, RowBytes(r)))
                => calibration' = <<calibration[1], calibration[2], r>>]_vars
    /\ [](Handled(EXTENSION_8BYTES) =>
            \A i \in Of("writerow") : \A pos \in Positions :
                /\ IsReferenceMass(SinkMass(i, pos), RawOf(pos), Column(pos))
                /\ samples # <<>> =>
                      Corners(samples[Len(samples)])[pos + 1] = SinkMass(i, pos))
    /\ []((/\ Handled(EXTENSION_8BYTES)
           /\ calibration = <<Uniform(100), Uniform(200), Uniform(300)>>
           /\ \A pos \in Positions : RawOf(pos) = 150)
            => /\ Of("writerow") # {}
               /\ \A i \in Of("writerow") :
                     trace[i].v = <<17, 2, 17, 2, 17, 2, 17, 2>>)

C13_Witness ==
    /\ Handled(EXTENSION_8BYTES)
    /\ nrecv = 3
    /\ calibration = <<Uniform(100), Uniform(200), Uniform(300)>>
    /\ \A pos \in Positions : RawOf(pos) = 150
    /\ samples # <<>>
    /\ samples[Len(samples)] =
          [top_right |-> <<17, 2>>, bottom_right |-> <<17, 2>>,
           top_left |-> <<17, 2>>, bottom_left |-> <<17, 2>>]

----------------------------------------------------------------------------
(* C14: after any status packet, whatever the 16-bit battery field, the    *)
(* stored battery level (the field divided by BATTERY_MAX) is a fraction   *)
(* in [0, 1]; a field of 100 yields 0.5.                                   *)
C14_BatteryIsFraction ==
    /\ 0 <= battery[1]
    /\ battery[1] <= battery[2]
    /\ (Handled(INPUT_STATUS) /\ b2i(Slice(data, 7, 9)) = 100)
          => battery = <<1, 2>>

----------------------------------------------------------------------------
\* the fields of the driver, the window and the counters
Fields ==
    <<calibration, calibration_requested, light_state, button_down, battery,
      running, samples, nsamples, nloop, length, controlsocket,
      receivesocket, csv_file, nsink, nmass>>

\* the packet has no tag the loop dispatches on
NotDispatchable(d) ==
    \/ Len(d) < 2
    \/ d[2] \notin {INPUT_STATUS, INPUT_READ_DATA, EXTENSION_8BYTES}

(* C15: a packet shorter than 2 bytes, or with a tag that is none of       *)
(* status, calibration data and extension, changes no field, window or     *)
(* counter, writes nothing to the control channel or the sink, invokes no  *)
(* callback, and the loop goes on to the next packet.                      *)
C15_NonDispatchableIsNoOp ==
    [][(pc = "loop" /\ nrecv' = nrecv + 1 /\ NotDispatchable(data'))
       => /\ UNCHANGED Fields
          /\ trace' = <<>>
          /\ err' = "none"
          /\ pc' = "loop"]_vars

C15_Witness ==
    /\ pc = "loop"
    /\ nrecv = 4
    /\ NotDispatchable(data)
    /\ Len(data) >= 2
    /\ ~calibration_requested
    /\ button_down
    /\ samples # <<>>
    /\ trace = <<>>

----------------------------------------------------------------------------
\* the positions of the effects of kind k in a list of effects
Kinds(t, k) == {i \in DOMAIN t : t[i].k = k}

\* the callbacks of the driver
Callbacks == {"on_status", "on_calibrated", "on_pressed", "on_released"}

(* C16: while calibration_requested is set, a calibration fragment of      *)
(* length 16 sets rows 0 and 1 from its two 8-byte halves, sets row 2 to   *)
(* the sentinel, keeps the flag and invokes no callback; a shorter         *)
(* fragment replaces only row 2, leaving rows 0 and 1 as they were, clears *)
(* the flag and invokes the calibration-complete callback exactly once.    *)
C16_FragmentEffects ==
    [][(calibration_requested /\ Receives(INPUT_READ_DATA) /\ Len(data') >= 5)
       => LET len     == data'[5] \div 16 + 1
              payload == Slice(data', 7, 7 + len)
          IN  IF len = 16
              THEN /\ calibration' = <<cal(Slice(payload, 0, 8)),
                                       cal(Slice(payload, 8, 16)),
                                       SentinelRow>>
                   /\ calibration_requested'
                   /\ \A k \in Callbacks : Kinds(trace', k) = {}
                   /\ pc' = "loop"
              ELSE /\ calibration'[1] = calibration[1]
                   /\ calibration'[2] = calibration[2]
                   /\ calibration'[3] = cal(Slice(payload, 0, 8))
                   /\ ~calibration_requested'
                   /\ Cardinality(Kinds(trace', "on_calibrated")) = 1
                   /\ \A k \in Callbacks \ {"on_calibrated"} :
                          Kinds(trace', k) = {}
                   /\ pc' = "loop"]_vars

C16_Witness ==
    /\ Handled(INPUT_READ_DATA)
    /\ nrecv = 1
    /\ data[5] \div 16 + 1 < 16
    /\ calibration[1] = SentinelRow
    /\ calibration[2] = SentinelRow
    /\ calibration[3] = Row(300, 310, 320, 330)
    /\ ~calibration_requested
    /\ Cardinality(Of("on_calibrated")) = 1

----------------------------------------------------------------------------
StatusRequest == <<OUTPUT_PREFIX, COMMAND_REQUEST_STATUS, 0>>

IndicatorOff == <<OUTPUT_PREFIX, COMMAND_LIGHT, 0>>

\* the effects of the last step from the clear of the window onwards
FromClear ==
    LET i == CHOOSE j \in Of("clear") : TRUE
    IN  SubSeq(trace, i, Len(trace))

\* the kinds of a list of effects, in order
KindsOf(t) == [i \in DOMAIN t |-> t[i].k]

(* C17: at each epoch boundary the controller clears the window, writes a  *)
(* status request, increments the epoch counter, and then either (counter  *)
(* above N_LOOP) closes both channels and clears running, with no          *)
(* indicator-off command and no pause, or sends indicator-off, pauses and  *)
(* stays running with both channels open.  The status request of the last  *)
(* epoch is written while the control channel is still open.               *)
C17_EpochBoundaryOrder ==
    /\ [](Cardinality(Of("clear")) <= 1)
    /\ []((Of("clear") # {} /\ err = "none") =>
            /\ samples = <<>>
            /\ FromClear[2] = [k |-> "send", v |-> StatusRequest]
            /\ IF nloop > N_LOOP
               THEN /\ KindsOf(FromClear) = <<"clear", "send", "nloop", "close">>
                    /\ ~running
                    /\ controlsocket = "closed"
                    /\ receivesocket = "closed"
               ELSE /\ KindsOf(FromClear) =
                          <<"clear", "send", "nloop", "send", "sleep">>
                    /\ FromClear[4].v = IndicatorOff
                    /\ FromClear[5].v = <<T_SLEEP>>
                    /\ running
                    /\ controlsocket = "open"
                    /\ receivesocket = "open")
    /\ [][(/\ Receives(EXTENSION_8BYTES)
           /\ pc' = "loop"
           /\ Len(samples) + 1 = N_SAMPLES
           /\ nsamples >= N_SAMPLES)
          => /\ Of("clear")' # {}
             /\ nloop' = nloop + 1
             /\ controlsocket = "open"]_vars

C17_Witness ==
    /\ Handled(EXTENSION_8BYTES)
    /\ nloop = N_LOOP + 1
    /\ KindsOf(FromClear) = <<"clear", "send", "nloop", "close">>
    /\ Sent(COMMAND_REQUEST_STATUS) # {}
    /\ Sent(COMMAND_LIGHT) = {}
    /\ ~running
    /\ controlsocket = "closed"

\* the boundary of an epoch that is not the last
C17_ContinuingEpoch ==
    /\ Handled(EXTENSION_8BYTES)
    /\ Of("clear") # {}
    /\ nloop <= N_LOOP
    /\ Of("sleep") # {}
    /\ running

----------------------------------------------------------------------------
\* the loop is about to call recv
Receiving == pc = "loop" /\ running

(* C18: against a board that answers the register read with both          *)
(* fragments in order, answers every status request with a status report   *)
(* and streams extension reports only while reporting is armed, the        *)
(* session goes on until it terminates: whenever the loop is about to call *)
(* recv, the board owes a reply or its stream is armed, so that recv       *)
(* returns and the session can go on to arm reporting and complete its     *)
(* epochs.                                                                 *)
C18_ConformingBoardKeepsSessionGoing ==
    (device.ok /\ Receiving) => (device.pending # <<>> \/ device.armed)

----------------------------------------------------------------------------
\* close has run
Terminated ==
    ~running /\ controlsocket = "closed" /\ receivesocket = "closed"

(* C19: once close has run (running false, both channels closed) the       *)
(* session stays terminated: no further packet is received, no command is  *)
(* written, no record goes to the sink, no callback fires, and a repeated  *)
(* close from the context manager or the finaliser changes no field.       *)
C19_TerminatedIsStable ==
    [][Terminated
       => /\ Terminated'
          /\ nrecv' = nrecv
          /\ data' = data
          /\ Kinds(trace', "send") = {}
          /\ Kinds(trace', "writerow") = {}
          /\ \A k \in Callbacks : Kinds(trace', k) = {}
          /\ UNCHANGED Fields]_vars

C19_Witness ==
    /\ pc = "finalised"
    /\ err = "none"
    /\ Terminated
    /\ nloop = N_LOOP + 1
    /\ Of("close") # {}
    /\ nrecv = MaxPackets

----------------------------------------------------------------------------
(* C20: no packet of length >= 2, whatever its tag, payload length or the *)
(* calibration state, puts the loop in an error state: the packet is       *)
(* handled or discarded and the loop goes on to the next recv; only a      *)
(* failure of the transport is fatal.                                      *)
C20_PacketsNeverFatal ==
    /\ (pc \in {"loop", "raised"} /\ nrecv > 0 /\ Len(data) >= 2)
          => (pc = "loop" /\ err = "none")
    /\ err \in {"none", "TransportError"}

====
